---- MODULE Spec2Model ----
(***************************************************************************)
(* Model of src/query_pnl.py: one fetch of a PnL document, aggregation of  *)
(* a per-record value into a grand total and into category and desk        *)
(* buckets, and the two entry points lambda_handler and main.              *)
(*                                                                         *)
(* Numbers.  A PnL value is a Python float.  The model counts in           *)
(* sixteenths: the integer n stands for the float n/16.  Every such float  *)
(* is represented exactly in binary, so float addition on these values is  *)
(* exact and round(x, 2) and the format ':.2f' are the correctly rounded   *)
(* decimal conversion, which Round2 computes (cents, ties to even).        *)
(*                                                                         *)
(* JSON values.  A field of a record is absent, null (Python None), a      *)
(* number or a string; all four are records of one shape [t, n, s].        *)
(*                                                                         *)
(* Dictionaries.  A Python dict keeps insertion order; a bucket mapping is *)
(* a sequence of [key, val] entries with distinct keys, in insertion order.*)
(***************************************************************************)
EXTENDS Integers, Sequences, FiniteSets, TLC

VARIABLES entry, pc, invocation, requests_sent, data, i,
          total_pnl, category_pnl, desk_pnl, stats, log, printed, ret, exc

vars == <<entry, pc, invocation, requests_sent, data, i,
          total_pnl, category_pnl, desk_pnl, stats, log, printed, ret, exc>>

\* Longest `results` list a fetched document carries.
MaxRecords == 2

\* Number of invocations of the entry points in one run of the process.
MaxInvocations == 2

----------------------------------------------------------------------------
\* JSON values

Absent == [t |-> "absent", n |-> 0, s |-> ""]

Null == [t |-> "null", n |-> 0, s |-> ""]

Num(x) == [t |-> "num", n |-> x, s |-> ""]

Str(x) == [t |-> "str", n |-> 0, s |-> x]

\* A record of `results` that is a JSON object with the four fields.
Rec(p, f, c, d) ==
    [obj |-> TRUE, kt_pnl_1_back |-> p, current_cumulative_pnl |-> f,
     category |-> c, desk |-> d]

\* A record of `results` that is not a JSON object (a bare number).
Scalar ==
    [obj |-> FALSE, kt_pnl_1_back |-> Absent, current_cumulative_pnl |-> Absent,
     category |-> Absent, desk |-> Absent]

\* The records a fetched document is built from.
Records ==
    { Rec(Num(0),  Num(3),  Str("RATES"), Str("D1")),
      Rec(Num(-2), Num(3),  Null,         Absent),
      Rec(Null,    Num(3),  Str("FX"),    Str("D1")),
      Rec(Absent,  Num(-2), Str("FX"),    Null),
      Rec(Null,    Null,    Str("FX"),    Absent),
      Rec(Absent,  Null,    Absent,       Absent),
      Rec(Null,    Absent,  Str("RATES"), Null),
      Rec(Absent,  Absent,  Absent,       Str("D1")),
      Scalar }

\* The value of data["results"]: the key is absent, or it holds null, an
\* empty JSON object, or a list of records.
ResultsAbsent == [t |-> "absent", items |-> <<>>]

ResultsNull == [t |-> "null", items |-> <<>>]

ResultsObj == [t |-> "obj", items |-> <<>>]

ResultsList(s) == [t |-> "list", items |-> s]

\* query_pnl_data returned None.
NoData == [t |-> "None", other |-> FALSE, results |-> ResultsAbsent]

SeqsUpTo(S, n) == UNION { [1..k -> S] : k \in 0..n }

\* The parsed JSON objects query_pnl_data can return; `other` says the
\* object has keys besides "results" ({} is the object without any key).
Documents ==
    [t : {"dict"}, other : BOOLEAN, results : {ResultsAbsent}]
      \cup [t : {"dict"}, other : {FALSE}, results : {ResultsNull, ResultsObj}]
      \cup [t : {"dict"}, other : {FALSE},
            results : [t : {"list"}, items : SeqsUpTo(Records, MaxRecords)]]

----------------------------------------------------------------------------
\* Pure helpers of calculate_pnl_statistics

\* dict.get(key, default): the stored value (None included) when the key is
\* present, the default only when the key is absent.
Get(result, key, default) ==
    IF result[key].t = "absent" THEN default ELSE result[key]

\* `not data`: None and the empty dict {} are falsy.
Falsy(d) == d.t = "None" \/ (~d.other /\ d.results.t = "absent")

\* `if not data or "results" not in data`
Invalid(d) == Falsy(d) \/ d.results.t = "absent"

SelectValue_zero_falls_back(result) ==
    LET a == Get(result, "kt_pnl_1_back", Null)
        b == IF a = Null \/ a = Num(0)
             THEN Get(result, "current_cumulative_pnl", Num(0)) ELSE a
    IN  IF b = Null THEN Num(0) ELSE b

\* The value a record contributes (the local kt_pnl_1_back after line 78).
SelectValue(result) ==
    LET a == Get(result, "kt_pnl_1_back", Null)
        b == IF a = Null
             THEN Get(result, "current_cumulative_pnl", Num(0)) ELSE a
    IN  IF b = Null THEN Num(0) ELSE b

HasKey(d, key) == \E j \in 1..Len(d) : d[j].key = key

IndexOf(d, key) == CHOOSE j \in 1..Len(d) : d[j].key = key

AddTo_overwrite(d, key, v) ==
    IF HasKey(d, key)
    THEN [d EXCEPT ![IndexOf(d, key)].val = v]
    ELSE Append(d, [key |-> key, val |-> v])

\* defaultdict(float): d[key] += v, the key created with 0.0 on first use.
AddTo(d, key, v) ==
    IF HasKey(d, key)
    THEN [d EXCEPT ![IndexOf(d, key)].val = @ + v]
    ELSE Append(d, [key |-> key, val |-> 0 + v])

Aggregators_kept(old) == old

\* Lines 64-66: fresh accumulators, whatever an earlier call left behind.
Aggregators(old) == [total |-> 0, by_category |-> <<>>, by_desk |-> <<>>]

NoStats == [t |-> "None", total |-> 0, by_category |-> <<>>, by_desk |-> <<>>]

\* The dict returned at lines 91-95.
StatsDict(t, c, d) == [t |-> "dict", total |-> t, by_category |-> c, by_desk |-> d]

Truthy_nonzero(s) == s.t = "dict" /\ s.total # 0

\* `if stats:` / `if not stats:`: None is falsy, the returned dict always
\* has its three keys and is truthy.
Truthy(s) == s.t = "dict"

----------------------------------------------------------------------------
\* Formatting

\* round(x, 2) and f"{x:.2f}" on n/16: the result in cents, ties to even.
Round2(n) ==
    LET m == n * 625
        q == m \div 100
        r == m % 100
    IN  IF r < 50 THEN q
        ELSE IF r > 50 THEN q + 1
        ELSE IF q % 2 = 0 THEN q ELSE q + 1

\* The label strings of the model in ascending code-point order.
LabelOrder == <<"D1", "FX", "RATES", "Unknown">>

Rank(s) == CHOOSE k \in 1..Len(LabelOrder) : LabelOrder[k] = s

\* str < str
StrLess(a, b) == Rank(a.s) < Rank(b.s)

\* sorted() compares the keys of the items; None < str raises TypeError.
\* Keys are distinct, so any list of two or more items with a None key
\* makes sorted() compare None with a str.
SortRaises(d) == Len(d) >= 2 /\ \E j \in 1..Len(d) : d[j].key.t # "str"

RECURSIVE Insert(_, _)
Insert(s, e) ==
    IF s = <<>> THEN <<e>>
    ELSE IF StrLess(e.key, Head(s).key) THEN <<e>> \o s
    ELSE <<Head(s)>> \o Insert(Tail(s), e)

RECURSIVE SortedItems(_)
\* sorted(d.items()) when it does not raise.
SortedItems(d) ==
    IF Len(d) <= 1 THEN d
    ELSE Insert(SortedItems(SubSeq(d, 1, Len(d) - 1)), d[Len(d)])

Rounded(d) == [j \in 1..Len(d) |-> [key |-> d[j].key, val |-> Round2(d[j].val)]]

NoPayload == [t |-> "None", total_pnl |-> 0, by_category |-> <<>>, by_desk |-> <<>>]

\* format_response: None for falsy stats, TypeError when a sorted() raises,
\* else the payload (timestamp and timezone strings are left out).
format_response(s) ==
    IF ~Truthy(s) THEN NoPayload
    ELSE IF SortRaises(s.by_category) \/ SortRaises(s.by_desk)
    THEN [NoPayload EXCEPT !.t = "TypeError"]
    ELSE [t |-> "dict", total_pnl |-> Round2(s.total),
          by_category |-> Rounded(SortedItems(s.by_category)),
          by_desk |-> Rounded(SortedItems(s.by_desk))]

\* print_statistics: the numeric lines printed, in order, and whether a
\* sorted() raised before the end.
print_statistics(s) ==
    LET head == <<[key |-> Str("Total PnL"), val |-> Round2(s.total)]>>
    IN  IF ~Truthy(s) THEN [lines |-> <<>>, raised |-> FALSE]
        ELSE IF SortRaises(s.by_category) THEN [lines |-> head, raised |-> TRUE]
        ELSE IF SortRaises(s.by_desk)
        THEN [lines |-> head \o Rounded(SortedItems(s.by_category)), raised |-> TRUE]
        ELSE [lines |-> head \o Rounded(SortedItems(s.by_category))
                             \o Rounded(SortedItems(s.by_desk)),
              raised |-> FALSE]

----------------------------------------------------------------------------
\* Return values of an entry point

Pending ==
    [kind |-> "pending", statusCode |-> 0, error |-> "", timestamp |-> FALSE,
     headers |-> FALSE, body |-> NoPayload]

\* `return` without a value, or falling off the end of main().
ReturnNone == [Pending EXCEPT !.kind = "None"]

\* An exception left the entry point.
Raised(name) == [Pending EXCEPT !.kind = "raise", !.error = name]

\* The failure envelope: statusCode 500, body {error, timestamp}, no headers.
Envelope500(msg) ==
    [kind |-> "envelope", statusCode |-> 500, error |-> msg, timestamp |-> TRUE,
     headers |-> FALSE, body |-> NoPayload]

\* The success envelope: statusCode 200, the payload, Content-Type header.
Envelope200(payload) ==
    [kind |-> "envelope", statusCode |-> 200, error |-> "", timestamp |-> TRUE,
     headers |-> TRUE, body |-> payload]

ExceptionResult_propagates(e, name) == Raised(name)

\* An exception raised below an entry point: lambda_handler's
\* `except Exception` turns it into a 500 envelope, main() has no handler.
ExceptionResult(e, name) ==
    IF e = "lambda_handler" THEN Envelope500("Unexpected error") ELSE Raised(name)

\* What an entry point prints when an exception reaches it.
ExceptionLog(e) == IF e = "lambda_handler" THEN <<"Unexpected error">> ELSE <<>>

\* A failure the entry point detects itself (data is None, stats is falsy).
FailureResult(e, msg) == IF e = "lambda_handler" THEN Envelope500(msg) ELSE ReturnNone

AfterFetch_always_aggregates(d) == "AGGREGATING"

\* `if data is None:` after the fetch.
AfterFetch(d) == IF d.t = "None" THEN "FETCH_FAILED" ELSE "AGGREGATING"

\* Line 57, on entry of calculate_pnl_statistics: to line 58 or to the loop.
AfterEnter(d) == IF Invalid(d) THEN "INVALID" ELSE "LOOP"

\* `if stats:` after the aggregation.
AfterAggregate(s) == IF Truthy(s) THEN "FORMATTING" ELSE "AGGREGATE_FAILED"

\* The state of the invocation in the terms of the design's state machine:
\* AGGREGATING while control is inside calculate_pnl_statistics.
Phase == IF pc \in {"INVALID", "LOOP"} THEN "AGGREGATING" ELSE pc

----------------------------------------------------------------------------
\* The state machine

EntryPoints == {"lambda_handler", "main"}

Init ==
    /\ entry \in EntryPoints
    /\ pc = "START"
    /\ invocation = 1
    /\ requests_sent = 0
    /\ data = NoData
    /\ i = 0
    /\ total_pnl = 0
    /\ category_pnl = <<>>
    /\ desk_pnl = <<>>
    /\ stats = NoStats
    /\ log = <<>>
    /\ printed = <<>>
    /\ ret = Pending
    /\ exc = ""

\* Lines 155 / 214.
Begin ==
    /\ pc = "START"
    /\ pc' = "FETCHING"
    /\ log' = Append(log, "Querying PnL dashboard API...")
    /\ UNCHANGED <<entry, invocation, requests_sent, data, i, total_pnl,
                   category_pnl, desk_pnl, stats, printed, ret, exc>>

\* query_pnl_data and the `data is None` test that follows it: one GET,
\* which yields a parsed document or, on a RequestException, None.  With a
\* document the step runs on through lines 169-173 into
\* calculate_pnl_statistics, up to line 58 (invalid document) or through
\* lines 61-66 to the head of the loop.
QueryPnlData ==
    /\ pc = "FETCHING"
    /\ requests_sent' = requests_sent + 1
    /\ data' \in Documents \cup {NoData}
    /\ IF AfterFetch(data') = "FETCH_FAILED"
       THEN /\ log' = Append(log, "Error querying API")
            /\ pc' = "FETCH_FAILED"
            /\ UNCHANGED <<i, total_pnl, category_pnl, desk_pnl>>
       ELSE /\ log' = log \o <<"FULL RESPONSE JSON:", "Calculating statistics...">>
            /\ pc' = AfterEnter(data')
            /\ IF AfterEnter(data') = "INVALID"
               THEN UNCHANGED <<i, total_pnl, category_pnl, desk_pnl>>
               ELSE LET fresh == Aggregators([total |-> total_pnl,
                                              by_category |-> category_pnl,
                                              by_desk |-> desk_pnl])
                    IN  /\ total_pnl' = fresh.total
                        /\ category_pnl' = fresh.by_category
                        /\ desk_pnl' = fresh.by_desk
                        /\ i' = 0
    /\ UNCHANGED <<entry, invocation, stats, printed, ret, exc>>

\* Lines 158-167 / 217-219.
FetchFailed ==
    /\ pc = "FETCH_FAILED"
    /\ log' = Append(log, "Failed to retrieve data from API.")
    /\ ret' = FailureResult(entry, "Failed to retrieve data from API.")
    /\ pc' = "DONE"
    /\ UNCHANGED <<entry, invocation, requests_sent, data, i, total_pnl,
                   category_pnl, desk_pnl, stats, printed, exc>>

\* Lines 58-59 and the `if stats:` that follows the call: an invalid
\* document returns None at once.
ReturnInvalid ==
    /\ pc = "INVALID"
    /\ log' = Append(log, "Invalid data format")
    /\ stats' = NoStats
    /\ pc' = AfterAggregate(NoStats)
    /\ UNCHANGED <<entry, invocation, requests_sent, data, i, total_pnl,
                   category_pnl, desk_pnl, printed, ret, exc>>

\* Lines 69-89 for one record that is a JSON object.
ProcessRecord ==
    /\ pc = "LOOP"
    /\ data.results.t = "list"
    /\ i < Len(data.results.items)
    /\ LET result == data.results.items[i + 1]
           v == SelectValue(result).n
       IN  /\ result.obj
           /\ total_pnl' = total_pnl + v
           /\ category_pnl' = AddTo(category_pnl, Get(result, "category", Str("Unknown")), v)
           /\ desk_pnl' = AddTo(desk_pnl, Get(result, "desk", Str("Unknown")), v)
    /\ i' = i + 1
    /\ UNCHANGED <<entry, pc, invocation, requests_sent, data, stats, log,
                   printed, ret, exc>>

\* Line 69 on a `results` that is null (TypeError: not iterable) and line 70
\* on a record that is not an object (AttributeError: no attribute 'get').
LoopRaises ==
    /\ pc = "LOOP"
    /\ \/ /\ data.results.t = "null"
          /\ exc' = "TypeError"
       \/ /\ data.results.t = "list"
          /\ i < Len(data.results.items)
          /\ ~data.results.items[i + 1].obj
          /\ exc' = "AttributeError"
    /\ pc' = "AGGREGATE_FAILED"
    /\ UNCHANGED <<entry, invocation, requests_sent, data, i, total_pnl,
                   category_pnl, desk_pnl, stats, log, printed, ret>>

\* Lines 91-95 and the `if stats:` that follows the call: the loop is over
\* (the list is exhausted, or `results` is an empty object).
CalculateReturn ==
    /\ pc = "LOOP"
    /\ \/ data.results.t = "obj"
       \/ data.results.t = "list" /\ i = Len(data.results.items)
    /\ stats' = StatsDict(total_pnl, category_pnl, desk_pnl)
    /\ pc' = AfterAggregate(stats')
    /\ UNCHANGED <<entry, invocation, requests_sent, data, i, total_pnl,
                   category_pnl, desk_pnl, log, printed, ret, exc>>

\* Lines 189-198 / 229-230 when stats is falsy, lines 200-209 when the
\* aggregation raised (main: the exception leaves main).
AggregateFailed ==
    /\ pc = "AGGREGATE_FAILED"
    /\ IF exc # ""
       THEN /\ ret' = ExceptionResult(entry, exc)
            /\ log' = log \o ExceptionLog(entry)
       ELSE /\ ret' = FailureResult(entry, "Failed to calculate statistics.")
            /\ log' = Append(log, "Failed to calculate statistics.")
    /\ pc' = "DONE"
    /\ UNCHANGED <<entry, invocation, requests_sent, data, i, total_pnl,
                   category_pnl, desk_pnl, stats, printed, exc>>

\* Lines 175-188 / 227-228: print_statistics, then (lambda_handler)
\* format_response and the 200 envelope; a TypeError of sorted() goes to
\* lambda_handler's except clause or out of main().
Render ==
    /\ pc = "FORMATTING"
    /\ LET p == print_statistics(stats)
           r == format_response(stats)
           failed == p.raised \/ (entry = "lambda_handler" /\ r.t = "TypeError")
       IN  /\ printed' = p.lines
           /\ exc' = IF failed THEN "TypeError" ELSE exc
           /\ log' = IF failed THEN log \o ExceptionLog(entry) ELSE log
           /\ ret' = IF failed THEN ExceptionResult(entry, "TypeError")
                     ELSE IF entry = "lambda_handler" THEN Envelope200(r)
                     ELSE ReturnNone
    /\ pc' = "DONE"
    /\ UNCHANGED <<entry, invocation, requests_sent, data, i, total_pnl,
                   category_pnl, desk_pnl, stats>>

\* The next invocation of an entry point.  Everything the invocation
\* assigns before it reads is reset; the accumulators keep what the last
\* call left, so that starting from zero is established by lines 64-66 and
\* not assumed.
Invoke ==
    /\ pc = "DONE"
    /\ invocation < MaxInvocations
    /\ \E e \in EntryPoints : entry' = e
    /\ pc' = "START"
    /\ invocation' = invocation + 1
    /\ requests_sent' = 0
    /\ data' = NoData
    /\ i' = 0
    /\ stats' = NoStats
    /\ log' = <<>>
    /\ printed' = <<>>
    /\ ret' = Pending
    /\ exc' = ""
    /\ UNCHANGED <<total_pnl, category_pnl, desk_pnl>>

\* The steps of one invocation.
Step ==
    \/ Begin
    \/ QueryPnlData
    \/ FetchFailed
    \/ ReturnInvalid
    \/ ProcessRecord
    \/ LoopRaises
    \/ CalculateReturn
    \/ AggregateFailed
    \/ Render

Next == Step \/ Invoke

Spec == Init /\ [][Next]_vars

\* Execution is synchronous: a started invocation keeps running.
FairSpec == Spec /\ WF_vars(Step)

TypeOK ==
    /\ entry \in EntryPoints
    /\ pc \in {"START", "FETCHING", "FETCH_FAILED", "INVALID", "LOOP",
               "AGGREGATE_FAILED", "FORMATTING", "DONE"}
    /\ invocation \in 1..MaxInvocations
    /\ i \in 0..MaxRecords

----------------------------------------------------------------------------
\* Properties

RECURSIVE SumVals(_)
SumVals(d) == IF d = <<>> THEN 0 ELSE Head(d).val + SumVals(Tail(d))

Items == data.results.items

ErrorMessages ==
    {"Failed to retrieve data from API.", "Failed to calculate statistics.",
     "Invalid data format", "Error querying API", "Unexpected error"}

Logged(m) == \E k \in 1..Len(log) : log[k] = m

\* C1: at every point of the loop, and in every returned aggregate, the
\* grand total equals the sum of the category buckets and the sum of the
\* desk buckets.
C1_TotalsAgree ==
    /\ total_pnl = SumVals(category_pnl)
    /\ total_pnl = SumVals(desk_pnl)
    /\ stats.t = "dict" =>
          /\ stats.total = SumVals(stats.by_category)
          /\ stats.total = SumVals(stats.by_desk)

\* Two records were added, sharing a desk bucket but not a category bucket.
C1_Witness ==
    /\ stats.t = "dict"
    /\ i >= 2
    /\ stats.total # 0
    /\ Len(stats.by_category) = 2
    /\ Len(stats.by_desk) = 1

\* The value the precedence rule gives: the primary field when it is a
\* number (zero included), else the fallback when it is a number, else 0.
ClaimedValue(result) ==
    IF result.kt_pnl_1_back.t = "num" THEN result.kt_pnl_1_back.n
    ELSE IF result.current_cumulative_pnl.t = "num" THEN result.current_cumulative_pnl.n
    ELSE 0

\* C2: each processed record adds to the total, the category buckets and the
\* desk buckets the primary field when present and non-null (zero included),
\* otherwise the fallback field, and 0 when that is absent or null too.
C2_ValueSelection ==
    [][(pc = "LOOP" /\ i' = i + 1) =>
          LET v == ClaimedValue(Items[i + 1])
          IN  /\ total_pnl' = total_pnl + v
              /\ SumVals(category_pnl') = SumVals(category_pnl) + v
              /\ SumVals(desk_pnl') = SumVals(desk_pnl) + v]_vars

\* A record with primary 0 and fallback 3 was the first one processed and
\* left the total at 0.
C2_Witness ==
    /\ pc = "LOOP"
    /\ i = 1
    /\ Items[1].obj
    /\ Items[1].kt_pnl_1_back = Num(0)
    /\ Items[1].current_cumulative_pnl = Num(3)
    /\ total_pnl = 0

Missing(v) == v.t \in {"absent", "null"}

\* C3: every processed record is in exactly one category bucket and one desk
\* bucket, a record whose label is missing (absent or null) is under
\* "Unknown", and no bucket has another key for it.
C3_MissingLabelIsUnknown ==
    (pc = "LOOP" /\ data.results.t = "list") =>
        /\ \A j \in 1..i :
              /\ Missing(Items[j].category) => HasKey(category_pnl, Str("Unknown"))
              /\ Missing(Items[j].desk) => HasKey(desk_pnl, Str("Unknown"))
        /\ \A k \in 1..Len(category_pnl) : category_pnl[k].key.t = "str"
        /\ \A k \in 1..Len(desk_pnl) : desk_pnl[k].key.t = "str"

\* C4: lambda_handler always returns an envelope: 200 with the payload and
\* the Content-Type header when fetch, aggregation and rendering succeeded,
\* and 500 with an error message, a timestamp and no aggregate otherwise.
C4_HandlerEnvelope ==
    /\ entry = "lambda_handler" => ret.kind \in {"pending", "envelope"}
    /\ (pc = "DONE" /\ entry = "lambda_handler") =>
          /\ ret.kind = "envelope"
          /\ IF data.t = "dict" /\ stats.t = "dict" /\ exc = ""
             THEN /\ ret.statusCode = 200
                  /\ ret.headers
                  /\ ret.body.t = "dict"
                  /\ ret.body.total_pnl = Round2(stats.total)
             ELSE /\ ret.statusCode = 500
                  /\ ret.error # ""
                  /\ ret.timestamp
                  /\ ret.body = NoPayload

\* lambda_handler finished after an exception was raised under it.
C4_Witness ==
    /\ pc = "DONE"
    /\ entry = "lambda_handler"
    /\ exc # ""
    /\ ret.statusCode = 500

\* C5: main() returns no value and never lets an exception out; every
\* failure (fetch, malformed document, exception while aggregating or
\* rendering) leaves an error message in the log.
C5_MainNeverRaises ==
    (pc = "DONE" /\ entry = "main") =>
        /\ ret.kind = "None"
        /\ (data.t = "None" \/ stats.t # "dict" \/ exc # "") =>
              \E m \in ErrorMessages : Logged(m)

\* C6: for a document without a `results` list, calculate_pnl_statistics
\* returns None without processing a record or producing an aggregate,
\* lambda_handler answers 500 and main() logs an error.
C6_MalformedRejected ==
    (data.t = "dict" /\ data.results.t # "list"
       /\ pc \in {"AGGREGATE_FAILED", "FORMATTING", "DONE"}) =>
        /\ stats.t = "None"
        /\ exc = ""
        /\ Logged("Invalid data format")
        /\ pc = "DONE" =>
              /\ entry = "lambda_handler" => ret.kind = "envelope" /\ ret.statusCode = 500
              /\ entry = "main" => ret.kind = "None" /\ Logged("Failed to calculate statistics.")

\* The transitions of the design's state machine.
Allowed ==
    { <<"START", "FETCHING">>,
      <<"FETCHING", "FETCH_FAILED">>, <<"FETCHING", "AGGREGATING">>,
      <<"FETCH_FAILED", "DONE">>,
      <<"AGGREGATING", "AGGREGATE_FAILED">>, <<"AGGREGATING", "FORMATTING">>,
      <<"AGGREGATE_FAILED", "DONE">>,
      <<"FORMATTING", "DONE">> }

\* C7: an invocation moves only along START -> FETCHING -> (FETCH_FAILED ->
\* DONE) | AGGREGATING -> (AGGREGATE_FAILED -> DONE) | FORMATTING -> DONE;
\* aggregation needs a fetched document, formatting needs an aggregate, the
\* GET is sent exactly once, and every invocation reaches DONE.
C7_StateMachine ==
    /\ [][Phase' # Phase =>
            \/ <<Phase, Phase'>> \in Allowed
            \/ Phase = "DONE" /\ Phase' = "START" /\ invocation' = invocation + 1]_vars
    /\ [](Phase \in {"AGGREGATING", "AGGREGATE_FAILED", "FORMATTING"} => data.t # "None")
    /\ [](Phase = "FORMATTING" => stats.t = "dict" /\ exc = "")
    /\ [](requests_sent = IF Phase \in {"START", "FETCHING"} THEN 0 ELSE 1)
    /\ (Phase # "DONE") ~> (Phase = "DONE")

\* A second invocation went through fetch, aggregation and formatting.
C7_Witness ==
    /\ pc = "DONE"
    /\ invocation = 2
    /\ requests_sent = 1
    /\ stats.t = "dict"
    /\ ret.kind \in {"envelope", "None"}
    /\ exc = ""

\* C8: an empty `results` list aggregates to total 0 and empty mappings, and
\* the entry points treat it as a success: 200 from lambda_handler, no
\* failure message from main().
C8_EmptyResults ==
    (pc = "DONE" /\ data.t = "dict" /\ data.results = ResultsList(<<>>)) =>
        /\ stats = StatsDict(0, <<>>, <<>>)
        /\ entry = "lambda_handler" =>
              /\ ret.kind = "envelope"
              /\ ret.statusCode = 200
              /\ ret.body = [t |-> "dict", total_pnl |-> 0,
                             by_category |-> <<>>, by_desk |-> <<>>]
        /\ entry = "main" =>
              /\ ret = ReturnNone
              /\ \A m \in ErrorMessages : ~Logged(m)

\* lambda_handler answered 200 for an empty `results` list.
C8_Witness ==
    /\ pc = "DONE"
    /\ entry = "lambda_handler"
    /\ data.t = "dict"
    /\ data.results = ResultsList(<<>>)
    /\ ret.statusCode = 200

Keys(d) == { d[k].key : k \in 1..Len(d) }

Ascending(d) == \A k \in 1..(Len(d) - 1) : StrLess(d[k].key, d[k + 1].key)

\* The rendered mapping r holds the labels of the bucket mapping d, in
\* ascending order, each with d's value rounded to cents.
RenderedFrom(r, d) ==
    /\ Len(r) = Len(d)
    /\ Keys(r) = Keys(d)
    /\ Ascending(r)
    /\ \A k \in 1..Len(r) : r[k].val = Round2(d[IndexOf(d, r[k].key)].val)

\* C9: for every aggregate, format_response yields the aggregate's labels
\* in ascending order with each value and the total rounded to 2 decimals,
\* and print_statistics lists the buckets in the same order.
C9_SortedRounded ==
    stats.t = "dict" =>
        LET r == format_response(stats)
            p == print_statistics(stats)
        IN  /\ r.t = "dict"
            /\ r.total_pnl = Round2(stats.total)
            /\ RenderedFrom(r.by_category, stats.by_category)
            /\ RenderedFrom(r.by_desk, stats.by_desk)
            /\ ~p.raised
            /\ p.lines = <<[key |-> Str("Total PnL"), val |-> r.total_pnl]>>
                            \o r.by_category \o r.by_desk

Labels(field) == { Get(Items[j], field, Str("Unknown")) : j \in 1..Len(Items) }

RECURSIVE SumWhere(_, _, _)
\* The sum of the contributed values of the records of s whose label in
\* `field` is `key`.
SumWhere(s, field, key) ==
    IF s = <<>> THEN 0
    ELSE (IF Get(Head(s), field, Str("Unknown")) = key THEN SelectValue(Head(s)).n ELSE 0)
           + SumWhere(Tail(s), field, key)

RECURSIVE SumAll(_)
SumAll(s) == IF s = <<>> THEN 0 ELSE SelectValue(Head(s)).n + SumAll(Tail(s))

\* The mapping d is the aggregate of the fetched document over `field`.
BucketsOf(d, field) ==
    /\ Keys(d) = Labels(field)
    /\ \A k \in 1..Len(d) : d[k].val = SumWhere(Items, field, d[k].key)

\* C10: every invocation starts its aggregation from total 0 and empty
\* mappings, and its aggregate is determined by the document fetched in
\* that invocation alone.
C10_FreshPerInvocation ==
    /\ (pc = "LOOP" /\ i = 0) =>
          total_pnl = 0 /\ category_pnl = <<>> /\ desk_pnl = <<>>
    /\ stats.t = "dict" =>
          /\ stats.total = SumAll(Items)
          /\ BucketsOf(stats.by_category, "category")
          /\ BucketsOf(stats.by_desk, "desk")

\* A later invocation produced a non-zero aggregate.
C10_Witness ==
    /\ invocation >= 2
    /\ stats.t = "dict"
    /\ Len(Items) >= 1
    /\ stats.total # 0

====
